---- MODULE Spec2Model ----
(***************************************************************************)
(* Model of generated_strategy.py: the Portfolio (cash, positions, trade   *)
(* ledger), the Backtest orchestrator and the Nvda_amd_rotation strategy   *)
(* loop.                                                                   *)
(*                                                                         *)
(* Money amounts (capital, price, close) are exact integers in tenths of a *)
(* cent; a ledger entry holds the price as its text shows it, rounded to   *)
(* cents by the ":.2f" format.                                             *)
(***************************************************************************)
EXTENDS Integers, Sequences, FiniteSets, TLC

VARIABLES
    startCapital, \* the capital the Portfolio was created with (capital of line 108)
    capital,    \* Portfolio.capital
    positions,  \* Portfolio.positions: symbol -> share count, absent keys not in DOMAIN
    history,    \* Portfolio.history: the trade ledger
    last,       \* the last buy/sell call, its outcome and the Portfolio it was made on
    accepted,   \* the calls made so far whose acceptance condition held, in call order
    pc,         \* position of the caller: a client, or the place in Backtest / execute
    data,       \* Backtest.data: symbol -> number of bars of its frame
    output,     \* the lines printed by Backtest and by execute
    ksym,       \* execute: number of symbols of data the outer loop is done with
    i,          \* execute: bar index of the inner loop
    cur,        \* execute: the values read at the bar processed last
    barCalls    \* execute: the buy/sell calls issued at the bar processed last

vars == <<startCapital, capital, positions, history, last, accepted, pc, data, output, ksym, i, cur, barCalls>>

runVars == <<data, output, ksym, i, cur, barCalls>>

----------------------------------------------------------------------------
(* Bounds of the model *)

\* most calls whose acceptance condition holds that a client makes
MaxTrades == 3

\* starting capitals a Portfolio is created with
InitCapitals == {0, 3000}

\* prices a client passes: 0, 1.004 and 2.000
Prices == {0, 1004, 2000}

\* quantities inside the operations' precondition "quantity >= 1"
Quantities == {1, 2}

\* the non-negative quantities
WideQuantities == {0, 1, 2}

\* most bars in the frame of one symbol
MaxBars == 3

\* closes of a bar: 1.000 and 2.000
Closes == {1000, 2000}

----------------------------------------------------------------------------
(* Program constants *)

\* symbols = ["NVDA", "AMD"]
symbols == <<"NVDA", "AMD">>

SymbolSet == {symbols[n] : n \in 1..Len(symbols)}

\* quantity=1, the default of buy and sell
DefaultQuantity == 1

----------------------------------------------------------------------------
(* Portfolio *)

\* {} of Portfolio.__init__
NoPositions == [t \in {} |-> 0]

\* positions.get(symbol, 0)
Get(pos, symbol) == IF symbol \in DOMAIN pos THEN pos[symbol] ELSE 0

\* positions[symbol] = n
Put(pos, symbol, n) ==
    [t \in (DOMAIN pos) \cup {symbol} |-> IF t = symbol THEN n ELSE pos[t]]

\* del positions[symbol]
Del(pos, symbol) == [t \in (DOMAIN pos) \ {symbol} |-> pos[t]]

\* f"{price:.2f}": the price in cents, rounded to the nearest cent
Fmt2(price) == (price + 5) \div 10

\* f"BOUGHT {quantity} {symbol} @ {price:.2f}" / f"SOLD   {quantity} {symbol} @ {price:.2f}"
Trade(action, quantity, symbol, price) ==
    [action |-> action, quantity |-> quantity, symbol |-> symbol, price |-> Fmt2(price)]

\* Portfolio(capital)
Portfolio(cap) == [capital |-> cap, positions |-> NoPositions, history |-> <<>>]

\* the Portfolio object as it stands
Self == [capital |-> capital, positions |-> positions, history |-> history]

\* buy with the solvency test on the unit price instead of the cost
buy_unit_price_test(pf, symbol, price, quantity) ==
    IF pf.capital >= price
    THEN [capital   |-> pf.capital - price * quantity,
          positions |-> Put(pf.positions, symbol, Get(pf.positions, symbol) + quantity),
          history   |-> Append(pf.history, Trade("BOUGHT", quantity, symbol, price)),
          outcome   |-> "executed"]
    ELSE [capital   |-> pf.capital,
          positions |-> pf.positions,
          history   |-> pf.history,
          outcome   |-> "Insufficient capital"]

\* buy that puts the new entry at the head of the ledger
buy_prepends(pf, symbol, price, quantity) ==
    IF pf.capital >= price * quantity
    THEN [capital   |-> pf.capital - price * quantity,
          positions |-> Put(pf.positions, symbol, Get(pf.positions, symbol) + quantity),
          history   |-> <<Trade("BOUGHT", quantity, symbol, price)>> \o pf.history,
          outcome   |-> "executed"]
    ELSE [capital   |-> pf.capital,
          positions |-> pf.positions,
          history   |-> pf.history,
          outcome   |-> "Insufficient capital"]

\* buy that fills one share when the whole order cannot be paid
buy_partial_fill(pf, symbol, price, quantity) ==
    IF pf.capital >= price * quantity
    THEN [capital   |-> pf.capital - price * quantity,
          positions |-> Put(pf.positions, symbol, Get(pf.positions, symbol) + quantity),
          history   |-> Append(pf.history, Trade("BOUGHT", quantity, symbol, price)),
          outcome   |-> "executed"]
    ELSE IF pf.capital >= price
    THEN [capital   |-> pf.capital - price,
          positions |-> Put(pf.positions, symbol, Get(pf.positions, symbol) + 1),
          history   |-> Append(pf.history, Trade("BOUGHT", 1, symbol, price)),
          outcome   |-> "executed"]
    ELSE [capital   |-> pf.capital,
          positions |-> pf.positions,
          history   |-> pf.history,
          outcome   |-> "Insufficient capital"]

\* Portfolio.buy, on the Portfolio pf; outcome is what the call did
buy(pf, symbol, price, quantity) ==
    LET cost == price * quantity IN
    IF pf.capital >= cost
    THEN [capital   |-> pf.capital - cost,
          positions |-> Put(pf.positions, symbol, Get(pf.positions, symbol) + quantity),
          history   |-> Append(pf.history, Trade("BOUGHT", quantity, symbol, price)),
          outcome   |-> "executed"]
    ELSE [capital   |-> pf.capital,
          positions |-> pf.positions,
          history   |-> pf.history,
          outcome   |-> "Insufficient capital"]

\* sell without the removal of a key whose count reached zero
sell_keeps_key(pf, symbol, price, quantity) ==
    IF Get(pf.positions, symbol) >= quantity
    THEN IF symbol \notin DOMAIN pf.positions
         THEN [capital   |-> pf.capital + price * quantity,
               positions |-> pf.positions,
               history   |-> pf.history,
               outcome   |-> "KeyError"]
         ELSE [capital   |-> pf.capital + price * quantity,
               positions |-> Put(pf.positions, symbol, pf.positions[symbol] - quantity),
               history   |-> Append(pf.history, Trade("SOLD", quantity, symbol, price)),
               outcome   |-> "executed"]
    ELSE [capital   |-> pf.capital,
          positions |-> pf.positions,
          history   |-> pf.history,
          outcome   |-> "Not enough shares"]

\* sell that credits the cash before it tests the holding
sell_credits_first(pf, symbol, price, quantity) ==
    IF Get(pf.positions, symbol) >= quantity
    THEN IF symbol \notin DOMAIN pf.positions
         THEN [capital   |-> pf.capital + price * quantity,
               positions |-> pf.positions,
               history   |-> pf.history,
               outcome   |-> "KeyError"]
         ELSE LET left == pf.positions[symbol] - quantity IN
              [capital   |-> pf.capital + price * quantity,
               positions |-> IF left = 0 THEN Del(pf.positions, symbol)
                                         ELSE Put(pf.positions, symbol, left),
               history   |-> Append(pf.history, Trade("SOLD", quantity, symbol, price)),
               outcome   |-> "executed"]
    ELSE [capital   |-> pf.capital + price * quantity,
          positions |-> pf.positions,
          history   |-> pf.history,
          outcome   |-> "Not enough shares"]

\* sell that credits the unit price whatever the quantity
sell_credits_unit_price(pf, symbol, price, quantity) ==
    IF Get(pf.positions, symbol) >= quantity
    THEN IF symbol \notin DOMAIN pf.positions
         THEN [capital   |-> pf.capital + price,
               positions |-> pf.positions,
               history   |-> pf.history,
               outcome   |-> "KeyError"]
         ELSE LET left == pf.positions[symbol] - quantity IN
              [capital   |-> pf.capital + price,
               positions |-> IF left = 0 THEN Del(pf.positions, symbol)
                                         ELSE Put(pf.positions, symbol, left),
               history   |-> Append(pf.history, Trade("SOLD", quantity, symbol, price)),
               outcome   |-> "executed"]
    ELSE [capital   |-> pf.capital,
          positions |-> pf.positions,
          history   |-> pf.history,
          outcome   |-> "Not enough shares"]

\* sell that tests positions[symbol] without the default of get
sell_indexes_key(pf, symbol, price, quantity) ==
    IF symbol \notin DOMAIN pf.positions
    THEN [capital   |-> pf.capital,
          positions |-> pf.positions,
          history   |-> pf.history,
          outcome   |-> "KeyError"]
    ELSE IF pf.positions[symbol] >= quantity
    THEN LET left == pf.positions[symbol] - quantity IN
         [capital   |-> pf.capital + price * quantity,
          positions |-> IF left = 0 THEN Del(pf.positions, symbol)
                                    ELSE Put(pf.positions, symbol, left),
          history   |-> Append(pf.history, Trade("SOLD", quantity, symbol, price)),
          outcome   |-> "executed"]
    ELSE [capital   |-> pf.capital,
          positions |-> pf.positions,
          history   |-> pf.history,
          outcome   |-> "Not enough shares"]

\* Portfolio.sell, on the Portfolio pf. positions[symbol] -= quantity raises
\* KeyError when the key is absent, after capital was credited.
sell(pf, symbol, price, quantity) ==
    IF Get(pf.positions, symbol) >= quantity
    THEN IF symbol \notin DOMAIN pf.positions
         THEN [capital   |-> pf.capital + price * quantity,
               positions |-> pf.positions,
               history   |-> pf.history,
               outcome   |-> "KeyError"]
         ELSE LET left == pf.positions[symbol] - quantity IN
              [capital   |-> pf.capital + price * quantity,
               positions |-> IF left = 0 THEN Del(pf.positions, symbol)
                                         ELSE Put(pf.positions, symbol, left),
               history   |-> Append(pf.history, Trade("SOLD", quantity, symbol, price)),
               outcome   |-> "executed"]
    ELSE [capital   |-> pf.capital,
          positions |-> pf.positions,
          history   |-> pf.history,
          outcome   |-> "Not enough shares"]

----------------------------------------------------------------------------
(* Bars and indicator values *)

\* NaN of an indicator column, a value outside the numbers of the model
NaN == -1

\* x > y of Python floats: False when either side is NaN
Gt(x, y) == x # NaN /\ y # NaN /\ x > y

\* values of df['RSI_14'], df['SMA_50'], df['SMA_200'], df['ZSCORE_20'] at a bar
RsiValues == {NaN, 50}
Sma50Values == {NaN, 2000}
Sma200Values == {NaN, 1000}
ZscoreValues == {NaN, 0, 2}

\* what lines 90-95 read at one bar (volume is read and never used)
Bars ==
    [close : Closes, rsi : RsiValues, sma50 : Sma50Values,
     sma200 : Sma200Values, zscore : ZscoreValues]

\* data = {} of _fetch_data
NoData == [t \in {} |-> 0]

\* nothing read yet
NoBar == [symbol |-> "", index |-> 0, close |-> 0, rsi |-> NaN, sma50 |-> NaN,
          sma200 |-> NaN, zscore |-> NaN]

\* for symbol in self.data: the keys in insertion order, which is the order of symbols
Keys(d) == SelectSeq(symbols, LAMBDA s : s \in DOMAIN d)

\* one printed line
Line(text, arg) == [text |-> text, arg |-> arg]

----------------------------------------------------------------------------
(* A client of the Portfolio making buy and sell calls *)

\* the record of one call: the arguments, the outcome, the Portfolio before it
Call(op, symbol, price, quantity, outcome, pf) ==
    [op |-> op, symbol |-> symbol, price |-> price, quantity |-> quantity,
     outcome |-> outcome, capital0 |-> pf.capital, positions0 |-> pf.positions,
     history0 |-> pf.history]

\* the acceptance condition of a call on the Portfolio pf
Accepts(pf, op, symbol, price, quantity) ==
    IF op = "buy" THEN pf.capital >= price * quantity
                  ELSE Get(pf.positions, symbol) >= quantity

Args(op, symbol, price, quantity) ==
    [op |-> op, symbol |-> symbol, price |-> price, quantity |-> quantity]

Init ==
    /\ capital \in InitCapitals
    /\ startCapital = capital
    /\ positions = NoPositions
    /\ history = <<>>
    /\ last = Call("none", "", 0, 0, "none", Portfolio(capital))
    /\ accepted = <<>>
    /\ pc = "client"
    /\ data = NoData
    /\ output = <<>>
    /\ ksym = 0
    /\ i = 0
    /\ cur = NoBar
    /\ barCalls = <<>>

\* portfolio.buy(symbol, price, quantity)
CallBuy(symbol, price, quantity) ==
    /\ pc = "client"
    /\ Len(accepted) < MaxTrades
    /\ LET r == buy(Self, symbol, price, quantity) IN
       /\ capital' = r.capital
       /\ positions' = r.positions
       /\ history' = r.history
       /\ last' = Call("buy", symbol, price, quantity, r.outcome, Self)
    /\ accepted' = IF Accepts(Self, "buy", symbol, price, quantity)
                   THEN Append(accepted, Args("buy", symbol, price, quantity))
                   ELSE accepted
    /\ UNCHANGED <<startCapital, pc, runVars>>

\* portfolio.sell(symbol, price, quantity)
CallSell(symbol, price, quantity) ==
    /\ pc = "client"
    /\ Len(accepted) < MaxTrades
    /\ LET r == sell(Self, symbol, price, quantity) IN
       /\ capital' = r.capital
       /\ positions' = r.positions
       /\ history' = r.history
       /\ last' = Call("sell", symbol, price, quantity, r.outcome, Self)
    /\ accepted' = IF Accepts(Self, "sell", symbol, price, quantity)
                   THEN Append(accepted, Args("sell", symbol, price, quantity))
                   ELSE accepted
    /\ UNCHANGED <<startCapital, pc, runVars>>

\* calls inside the precondition price >= 0, quantity >= 1
Next ==
    \/ \E symbol \in SymbolSet, price \in Prices, quantity \in Quantities :
          CallBuy(symbol, price, quantity)
    \/ \E symbol \in SymbolSet, price \in Prices, quantity \in Quantities :
          CallSell(symbol, price, quantity)

Spec == Init /\ [][Next]_vars

\* calls with any non-negative price and quantity
NextWide ==
    \/ \E symbol \in SymbolSet, price \in Prices, quantity \in WideQuantities :
          CallBuy(symbol, price, quantity)
    \/ \E symbol \in SymbolSet, price \in Prices, quantity \in WideQuantities :
          CallSell(symbol, price, quantity)

SpecWide == Init /\ [][NextWide]_vars

\* the values of the worked example: capital 1000.00, prices 100.00 and
\* 110.00, quantities 1 and 3, the symbol "X"
ExampleCapitals == {1000000}
ExamplePrices == {100000, 110000}
ExampleQuantities == {1, 3}
ExampleSymbols == {"X"}

\* Portfolio(1000)
InitExample ==
    /\ capital \in ExampleCapitals
    /\ startCapital = capital
    /\ positions = NoPositions
    /\ history = <<>>
    /\ last = Call("none", "", 0, 0, "none", Portfolio(capital))
    /\ accepted = <<>>
    /\ pc = "client"
    /\ data = NoData
    /\ output = <<>>
    /\ ksym = 0
    /\ i = 0
    /\ cur = NoBar
    /\ barCalls = <<>>

\* calls with the values of the worked example
NextExample ==
    \/ \E symbol \in ExampleSymbols, price \in ExamplePrices, quantity \in ExampleQuantities :
          CallBuy(symbol, price, quantity)
    \/ \E symbol \in ExampleSymbols, price \in ExamplePrices, quantity \in ExampleQuantities :
          CallSell(symbol, price, quantity)

SpecExample == InitExample /\ [][NextExample]_vars

----------------------------------------------------------------------------
(* Backtest and Nvda_amd_rotation *)

\* Backtest(symbols, start_date, end_date, capital), at the call of _fetch_data
InitRun ==
    /\ capital \in InitCapitals
    /\ startCapital = capital
    /\ positions = NoPositions
    /\ history = <<>>
    /\ last = Call("none", "", 0, 0, "none", Portfolio(capital))
    /\ accepted = <<>>
    /\ pc = "fetch"
    /\ data = NoData
    /\ output = <<>>
    /\ ksym = 0
    /\ i = 0
    /\ cur = NoBar
    /\ barCalls = <<>>

\* Backtest._fetch_data: the provider raises, or returns something that is no
\* DataFrame, or returns a frame; a symbol of the frame's index gets its rows,
\* which the provider may leave without any row (the case line 81 tests).
_fetch_data ==
    /\ pc = "fetch"
    /\ \/ /\ data' = NoData
          /\ output' = Append(output, Line("Error fetching data with yahooquery", <<>>))
       \/ /\ data' = NoData
          /\ output' = Append(output,
                 Line("Warning: Unexpected data type returned from API", <<>>))
       \/ /\ \E present \in SUBSET SymbolSet :
                \E rows \in [present -> 0..MaxBars] : data' = rows
          /\ output' = output
    /\ pc' = "constructed"
    /\ UNCHANGED <<startCapital, capital, positions, history, last, accepted, ksym, i, cur, barCalls>>

\* Backtest.run, lines 54-56: the header, then strategy.execute() is entered
run ==
    /\ pc = "constructed"
    /\ output' = output \o <<Line("--- Starting Backtest ---", <<>>),
                             Line("Initial Capital", <<capital>>)>>
    /\ ksym' = 0
    /\ pc' = "for symbol"
    /\ UNCHANGED <<startCapital, capital, positions, history, last, accepted, data, i, cur, barCalls>>

\* execute, lines 79-83: the next symbol has no rows; it is skipped with a notice
execute_skip ==
    /\ pc = "for symbol"
    /\ ksym < Len(Keys(data))
    /\ data[Keys(data)[ksym + 1]] = 0
    /\ output' = Append(output, Line("Skipping due to no data", <<Keys(data)[ksym + 1]>>))
    /\ ksym' = ksym + 1
    /\ UNCHANGED <<startCapital, capital, positions, history, last, accepted, pc, data, i, cur, barCalls>>

\* execute_symbol with the bar loop written range(len(df))
execute_symbol_from_zero ==
    /\ pc = "for symbol"
    /\ ksym < Len(Keys(data))
    /\ data[Keys(data)[ksym + 1]] > 0
    /\ i' = 0
    /\ pc' = "for bar"
    /\ UNCHANGED <<startCapital, capital, positions, history, last, accepted, data, output,
                   ksym, cur, barCalls>>

\* execute, lines 79-89: the next symbol has rows; its indicator columns are
\* computed and the bar loop starts at index 1
execute_symbol ==
    /\ pc = "for symbol"
    /\ ksym < Len(Keys(data))
    /\ data[Keys(data)[ksym + 1]] > 0
    /\ i' = 1
    /\ pc' = "for bar"
    /\ UNCHANGED <<startCapital, capital, positions, history, last, accepted, data, output, ksym, cur, barCalls>>

\* the rule with RSI compared to a threshold instead of to itself
Rule_rsi_threshold(rsi, sma50, sma200, zscore) ==
    (Gt(rsi, 30) /\ Gt(sma50, sma200)) \/ Gt(zscore, 1)

\* the decision rule of lines 97 and 100
Rule(rsi, sma50, sma200, zscore) ==
    (Gt(rsi, rsi) /\ Gt(sma50, sma200)) \/ Gt(zscore, 1)

\* the calls at a bar with the second if taken as the else of the first
Planned_single_leg(bar) ==
    IF (Gt(bar.rsi, bar.rsi) /\ Gt(bar.sma50, bar.sma200)) \/ Gt(bar.zscore, 1)
    THEN <<Args("buy", "NVDA", bar.close, DefaultQuantity),
           Args("sell", "AMD", bar.close, DefaultQuantity)>>
    ELSE <<>>

\* the calls at a bar with each sell made before its buy
Planned_sells_first(bar) ==
    IF (Gt(bar.rsi, bar.rsi) /\ Gt(bar.sma50, bar.sma200)) \/ Gt(bar.zscore, 1)
    THEN <<Args("sell", "AMD", bar.close, DefaultQuantity),
           Args("buy", "NVDA", bar.close, DefaultQuantity),
           Args("sell", "NVDA", bar.close, DefaultQuantity),
           Args("buy", "AMD", bar.close, DefaultQuantity)>>
    ELSE <<>>

\* the calls of lines 97-102 at a bar, in program order
Planned(bar) ==
    (IF Rule(bar.rsi, bar.sma50, bar.sma200, bar.zscore)
     THEN <<Args("buy", "NVDA", bar.close, DefaultQuantity),
            Args("sell", "AMD", bar.close, DefaultQuantity)>>
     ELSE <<>>)
    \o
    (IF Rule(bar.rsi, bar.sma50, bar.sma200, bar.zscore)
     THEN <<Args("buy", "AMD", bar.close, DefaultQuantity),
            Args("sell", "NVDA", bar.close, DefaultQuantity)>>
     ELSE <<>>)

\* the calls of todo made one after another on the Portfolio pf; a call that
\* raises ends the sequence
RECURSIVE Issue(_, _, _)
Issue(pf, todo, log) ==
    IF todo = <<>>
    THEN [pf |-> pf, log |-> log, raised |-> FALSE]
    ELSE LET a == Head(todo)
             r == IF a.op = "buy" THEN buy(pf, a.symbol, a.price, a.quantity)
                                  ELSE sell(pf, a.symbol, a.price, a.quantity)
             c == Call(a.op, a.symbol, a.price, a.quantity, r.outcome, pf)
             q == [capital |-> r.capital, positions |-> r.positions, history |-> r.history]
         IN  IF r.outcome = "KeyError"
             THEN [pf |-> q, log |-> Append(log, c), raised |-> TRUE]
             ELSE Issue(q, Tail(todo), Append(log, c))

\* the calls of log whose acceptance condition held
AcceptedOf(log) ==
    LET ok == SelectSeq(log, LAMBDA c :
                  Accepts([capital |-> c.capital0, positions |-> c.positions0,
                           history |-> c.history0], c.op, c.symbol, c.price, c.quantity))
    IN  [n \in 1..Len(ok) |-> Args(ok[n].op, ok[n].symbol, ok[n].price, ok[n].quantity)]

\* execute, lines 89-102: one pass of the bar loop, at index i of the current symbol
execute_bar ==
    /\ pc = "for bar"
    /\ i < data[Keys(data)[ksym + 1]]
    /\ \E bar \in Bars :
          LET done == Issue(Self, Planned(bar), <<>>) IN
          /\ cur' = [symbol |-> Keys(data)[ksym + 1], index |-> i, close |-> bar.close,
                     rsi |-> bar.rsi, sma50 |-> bar.sma50, sma200 |-> bar.sma200,
                     zscore |-> bar.zscore]
          /\ barCalls' = done.log
          /\ capital' = done.pf.capital
          /\ positions' = done.pf.positions
          /\ history' = done.pf.history
          /\ last' = IF done.log = <<>> THEN last ELSE done.log[Len(done.log)]
          /\ accepted' = accepted \o AcceptedOf(done.log)
          /\ pc' = IF done.raised THEN "raised" ELSE pc
    /\ i' = i + 1
    /\ UNCHANGED <<startCapital, data, output, ksym>>

\* execute, line 89: the bar loop of the current symbol is exhausted
execute_next ==
    /\ pc = "for bar"
    /\ i >= data[Keys(data)[ksym + 1]]
    /\ ksym' = ksym + 1
    /\ pc' = "for symbol"
    /\ UNCHANGED <<startCapital, capital, positions, history, last, accepted, data, output, i, cur, barCalls>>

\* the lines run prints for the ledger
TradeLines(h) ==
    IF h = <<>> THEN <<Line("No trades were executed.", <<>>)>>
    ELSE [n \in 1..Len(h) |-> Line("trade", <<h[n]>>)]

\* execute returns (line 79 exhausted) and run prints the report, lines 57-66
run_report ==
    /\ pc = "for symbol"
    /\ ksym >= Len(Keys(data))
    /\ output' = output
                 \o <<Line("--- Backtest Finished ---", <<>>), Line("Trade History:", <<>>)>>
                 \o TradeLines(history)
                 \o <<Line("Final Portfolio:", <<>>), Line("Capital", <<capital>>),
                      Line("Positions", <<positions>>)>>
    /\ pc' = "done"
    /\ UNCHANGED <<startCapital, capital, positions, history, last, accepted, data, ksym, i, cur, barCalls>>

NextRun ==
    \/ _fetch_data
    \/ run
    \/ execute_skip
    \/ execute_symbol
    \/ execute_bar
    \/ execute_next
    \/ run_report

SpecRun == InitRun /\ [][NextRun]_vars

\* the script is one thread that runs on until it returns
FairSpecRun == SpecRun /\ WF_vars(NextRun)

----------------------------------------------------------------------------
(* Properties of the Portfolio under client calls *)

\* the ledger entry that describes an accepted call
Describes(a) ==
    Trade(IF a.op = "buy" THEN "BOUGHT" ELSE "SOLD", a.quantity, a.symbol, a.price)

\* C1: with price >= 0 and quantity >= 1, from a non-negative starting capital,
\* the cash balance is never negative.
C1_CashNeverNegative == capital >= 0

\* a buy that spent the whole cash balance
C1_Witness ==
    /\ last.op = "buy"
    /\ last.outcome = "executed"
    /\ last.capital0 > 0
    /\ capital = 0

\* C2: every position count is >= 0 and no key of the positions mapping has
\* the value 0 (calls with price >= 0 and quantity >= 1).
C2_NoZeroPosition ==
    /\ \A s \in SymbolSet : Get(positions, s) >= 0
    /\ \A s \in DOMAIN positions : positions[s] # 0

\* a sell of exactly the shares held, which removed the key
C2_Witness ==
    /\ last.op = "sell"
    /\ last.outcome = "executed"
    /\ last.symbol \in DOMAIN last.positions0
    /\ last.positions0[last.symbol] = last.quantity
    /\ last.symbol \notin DOMAIN positions

\* C3: the ledger has one entry per accepted call, the n-th entry describes
\* the n-th accepted call, and a step only ever appends to the ledger.
C3_LedgerAppendOnly ==
    /\ [](/\ Len(history) = Len(accepted)
          /\ \A n \in 1..Len(history) : history[n] = Describes(accepted[n]))
    /\ [][/\ Len(history') >= Len(history)
          /\ SubSeq(history', 1, Len(history)) = history]_vars

\* a ledger of a buy and a sell, with a skipped call after them
C3_Witness ==
    /\ Len(history) = 2
    /\ history[1].action = "BOUGHT"
    /\ history[2].action = "SOLD"
    /\ last.outcome = "Insufficient capital"

\* C4: a buy whose cost exceeds the cash leaves cash, positions and ledger
\* length as they were.
C4_RejectedBuyNoOp ==
    (last.op = "buy" /\ last.price * last.quantity > last.capital0)
        => /\ capital = last.capital0
           /\ positions = last.positions0
           /\ Len(history) = Len(last.history0)

\* an overdrawing buy made on a Portfolio that holds shares and could pay one share
C4_Witness ==
    /\ last.op = "buy"
    /\ last.price * last.quantity > last.capital0
    /\ last.capital0 >= last.price
    /\ DOMAIN positions # {}

\* C5: a sell of more shares than held (an absent symbol holds 0) leaves cash,
\* positions and ledger length as they were.
C5_RejectedSellNoOp ==
    (last.op = "sell" /\ last.quantity > Get(last.positions0, last.symbol))
        => /\ capital = last.capital0
           /\ positions = last.positions0
           /\ Len(history) = Len(last.history0)

\* an oversized sell, at a price above 0, of a symbol that is held
C5_Witness ==
    /\ last.op = "sell"
    /\ last.price > 0
    /\ last.symbol \in DOMAIN last.positions0
    /\ last.quantity > last.positions0[last.symbol]

\* the call made by this step is sell, with the arguments of the buy before it
SellAfterSameBuy ==
    /\ last.op = "buy"
    /\ last'.op = "sell"
    /\ last'.symbol = last.symbol
    /\ last'.price = last.price
    /\ last'.quantity = last.quantity

\* C6 as claimed: buy then sell with the same arguments leaves cash and
\* positions as they were before the buy, in any state.
C6_RoundTripAnyState ==
    [][SellAfterSameBuy => (capital' = last.capital0 /\ positions' = last.positions0)]_vars

\* C6: when the buy is accepted (cash >= price * quantity), buy then sell with
\* the same arguments leaves cash and positions as they were before the buy.
C6_RoundTripAcceptedBuy ==
    [][(SellAfterSameBuy /\ last.capital0 >= last.price * last.quantity)
          => (capital' = last.capital0 /\ positions' = last.positions0)]_vars

\* a sell of 2 shares at a price above 0 that undid the buy just before it,
\* on a Portfolio that held the symbol before
C6_Witness ==
    /\ last.op = "sell"
    /\ last.outcome = "executed"
    /\ last.quantity = 2
    /\ last.price > 0
    /\ Len(history) >= 3
    /\ history[Len(history) - 1] = Trade("BOUGHT", last.quantity, last.symbol, last.price)
    /\ last.history0 = SubSeq(history, 1, Len(history) - 1)
    /\ last.symbol \in DOMAIN positions

\* C9 as claimed: no call with price >= 0 and quantity >= 0 raises.
C9_NeverRaises == last.outcome # "KeyError"

----------------------------------------------------------------------------
(* Properties of the strategy loop and of the run *)

\* some indicator value read at the bar processed last is NaN
AnyNaN(bar) ==
    bar.rsi = NaN \/ bar.sma50 = NaN \/ bar.sma200 = NaN \/ bar.zscore = NaN

\* C7 as claimed: a bar at which any of RSI_14, SMA_50, SMA_200, ZSCORE_20 is
\* NaN issues no buy and no sell call.
C7_NoCallOnNaN ==
    (cur.index >= 1 /\ AnyNaN(cur)) => barCalls = <<>>

\* the line execute prints when it skips symbol s
Skipped(s) ==
    \E n \in 1..Len(output) :
        output[n].text = "Skipping due to no data" /\ output[n].arg = <<s>>

\* C8 as claimed: at the end of the run, a symbol whose frame has no rows has
\* its skip notice printed and is named by no ledger entry.
C8_NoTradeOfEmptySymbol ==
    pc = "done" =>
        \A s \in DOMAIN data :
            data[s] = 0 =>
                /\ Skipped(s)
                /\ \A n \in 1..Len(history) : history[n].symbol # s

\* the report of run, lines 57-66, is the end of the output
ReportPrinted ==
    /\ Len(output) >= 6
    /\ \E n \in 1..Len(output) : output[n].text = "--- Backtest Finished ---"
    /\ output[Len(output) - 1].text = "Capital"
    /\ output[Len(output) - 1].arg = <<capital>>
    /\ output[Len(output)].text = "Positions"
    /\ output[Len(output)].arg = <<positions>>

\* C10: whatever the fetch returned and whatever each trade did, the run
\* reaches the end of Backtest.run with the final report printed.
C10_RunCompletes == <>(pc = "done" /\ ReportPrinted)

\* a finished run in which one symbol had no rows and the bar processed last
\* had a call executed and a call skipped
C10_Witness ==
    /\ pc = "done"
    /\ ReportPrinted
    /\ \E s \in DOMAIN data : data[s] = 0
    /\ \E n \in 1..Len(barCalls) : barCalls[n].outcome = "executed"
    /\ \E n \in 1..Len(barCalls) : barCalls[n].outcome = "Insufficient capital"

----------------------------------------------------------------------------
(* The worked example of the Portfolio *)

\* the call made last is op(symbol, price, quantity)
LastIs(op, symbol, price, quantity) ==
    /\ last.op = op
    /\ last.symbol = symbol
    /\ last.price = price
    /\ last.quantity = quantity

\* C11: on Portfolio(1000), buy("X", 100, 3) gives cash 700, position X = 3
\* and the ledger [BOUGHT 3 X @ 100.00]; sell("X", 110, 3) after it gives cash
\* 1030, no key "X" and a ledger of 2 entries.
C11_WorkedExample ==
    /\ (/\ LastIs("buy", "X", 100000, 3)
        /\ last.capital0 = 1000000
        /\ last.positions0 = NoPositions
        /\ last.history0 = <<>>)
         => /\ capital = 700000
            /\ DOMAIN positions = {"X"}
            /\ positions["X"] = 3
            /\ history = <<[action |-> "BOUGHT", quantity |-> 3, symbol |-> "X",
                            price |-> 10000]>>
    /\ (/\ LastIs("sell", "X", 110000, 3)
        /\ last.capital0 = 700000
        /\ DOMAIN last.positions0 = {"X"}
        /\ last.positions0["X"] = 3
        /\ last.history0 = <<[action |-> "BOUGHT", quantity |-> 3, symbol |-> "X",
                              price |-> 10000]>>)
         => /\ capital = 1030000
            /\ "X" \notin DOMAIN positions
            /\ Len(history) = 2

\* the state after the two calls of the example
C11_Witness ==
    /\ LastIs("sell", "X", 110000, 3)
    /\ last.capital0 = 700000
    /\ last.history0 = <<[action |-> "BOUGHT", quantity |-> 3, symbol |-> "X",
                          price |-> 10000]>>
    /\ accepted = <<Args("buy", "X", 100000, 3), Args("sell", "X", 110000, 3)>>
    /\ capital = 1030000

----------------------------------------------------------------------------
(* Properties of the rotation at a bar *)

\* the rule of lines 97 and 100 holds of the values read at the bar processed last
Fired == cur.index >= 1 /\ Rule(cur.rsi, cur.sma50, cur.sma200, cur.zscore)

\* the ledger entries appended at the bar processed last
BarEntries ==
    IF barCalls = <<>> THEN <<>>
    ELSE SubSeq(history, Len(barCalls[1].history0) + 1, Len(history))

\* the number of entries of seq with the given action
CountOf(seq, action) == Cardinality({n \in 1..Len(seq) : seq[n].action = action})

\* the number of calls of the bar that were executed
Executed == Cardinality({n \in 1..Len(barCalls) : barCalls[n].outcome = "executed"})

\* the bar issued buy NVDA / sell AMD and buy AMD / sell NVDA
BothRotations ==
    /\ \E n \in 1..Len(barCalls) : barCalls[n].op = "buy" /\ barCalls[n].symbol = "NVDA"
    /\ \E n \in 1..Len(barCalls) : barCalls[n].op = "sell" /\ barCalls[n].symbol = "AMD"
    /\ \E n \in 1..Len(barCalls) : barCalls[n].op = "buy" /\ barCalls[n].symbol = "AMD"
    /\ \E n \in 1..Len(barCalls) : barCalls[n].op = "sell" /\ barCalls[n].symbol = "NVDA"

\* C12 as claimed: a bar at which the rule fires issues both rotations and adds
\* exactly two buys and two sells of 1 share each to the ledger.
C12_TwoBuysTwoSells ==
    Fired => /\ BothRotations
             /\ CountOf(BarEntries, "BOUGHT") = 2
             /\ CountOf(BarEntries, "SOLD") = 2
             /\ \A n \in 1..Len(BarEntries) : BarEntries[n].quantity = 1

\* C12: a bar at which the rule fires issues both rotations and adds one
\* entry of 1 share per accepted call: at most two buys and two sells, and two
\* of each exactly when all four calls are executed.
C12_AtMostTwoBuysTwoSells ==
    Fired => /\ BothRotations
             /\ Len(BarEntries) = Executed
             /\ CountOf(BarEntries, "BOUGHT") <= 2
             /\ CountOf(BarEntries, "SOLD") <= 2
             /\ \A n \in 1..Len(BarEntries) : BarEntries[n].quantity = 1
             /\ (CountOf(BarEntries, "BOUGHT") = 2 /\ CountOf(BarEntries, "SOLD") = 2)
                    <=> Executed = 4

\* a firing bar at which all four calls were executed
C12_Witness ==
    /\ Fired
    /\ CountOf(BarEntries, "BOUGHT") = 2
    /\ CountOf(BarEntries, "SOLD") = 2

\* C13: calls are issued at a bar exactly when the z-score read there is a
\* number greater than 1, whatever RSI, SMA50 and SMA200 are, and then both
\* legs issue theirs.
C13_RuleIsZscoreAboveOne ==
    cur.index >= 1 =>
        /\ (barCalls # <<>>) <=> (cur.zscore # NaN /\ cur.zscore > 1)
        /\ barCalls # <<>> => BothRotations

\* a bar with RSI defined and SMA50 above SMA200, z-score not above 1, and no call
C13_Witness ==
    /\ cur.index >= 1
    /\ cur.rsi # NaN
    /\ cur.sma50 # NaN
    /\ cur.sma200 # NaN
    /\ cur.sma50 > cur.sma200
    /\ cur.zscore = 0
    /\ barCalls = <<>>

\* the arguments of the n-th call of the bar processed last
ArgsOf(n) ==
    Args(barCalls[n].op, barCalls[n].symbol, barCalls[n].price, barCalls[n].quantity)

\* C14: a bar at which the rule fires issues exactly buy NVDA, sell AMD,
\* buy AMD, sell NVDA, in this order, each of 1 share at the close read at that
\* bar of the iterated symbol.
C14_FourCallsInOrder ==
    Fired =>
        /\ Len(barCalls) = 4
        /\ ArgsOf(1) = [op |-> "buy", symbol |-> "NVDA", price |-> cur.close, quantity |-> 1]
        /\ ArgsOf(2) = [op |-> "sell", symbol |-> "AMD", price |-> cur.close, quantity |-> 1]
        /\ ArgsOf(3) = [op |-> "buy", symbol |-> "AMD", price |-> cur.close, quantity |-> 1]
        /\ ArgsOf(4) = [op |-> "sell", symbol |-> "NVDA", price |-> cur.close, quantity |-> 1]

\* a firing bar of AMD at which NVDA was bought at AMD's close
C14_Witness ==
    /\ Fired
    /\ cur.symbol = "AMD"
    /\ Len(barCalls) = 4
    /\ barCalls[1].symbol = "NVDA"
    /\ barCalls[1].outcome = "executed"
    /\ barCalls[1].price = cur.close

\* the place of a symbol in the list of symbols, 0 for none
SymPos(s) == IF s = "" THEN 0 ELSE CHOOSE n \in 1..Len(symbols) : symbols[n] = s

\* C15: bars are processed one symbol after the other in the order of the
\* symbols, within a symbol at the indexes 1, 2, ... up to the last; index 0 is
\* never processed, and ledger entries are only added at the end of the
\* ledger, by the bar being processed.
C15_SequentialBars ==
    /\ [][/\ cur' # cur =>
               /\ cur'.index >= 1
               /\ IF cur'.symbol = cur.symbol
                  THEN cur'.index = cur.index + 1
                  ELSE /\ cur'.index = 1
                       /\ SymPos(cur'.symbol) > SymPos(cur.symbol)
                       /\ cur.symbol # "" => cur.index = data[cur.symbol] - 1
          /\ history' # history =>
               /\ cur' # cur
               /\ Len(history') > Len(history)
               /\ SubSeq(history', 1, Len(history)) = history]_vars
    /\ []((pc = "done" /\ cur.symbol # "") => cur.index = data[cur.symbol] - 1)

\* the second bar of AMD added entries after those added while NVDA was iterated
C15_Witness ==
    /\ cur.symbol = "AMD"
    /\ cur.index = 2
    /\ "NVDA" \in DOMAIN data
    /\ data["NVDA"] >= 2
    /\ BarEntries # <<>>
    /\ Len(history) >= Len(BarEntries) + 6

\* C16: in a run, which starts without positions, the Portfolio holds no NVDA
\* share and at most 1 AMD share at the end of every bar.
C16_HoldingsAtBarEnd ==
    /\ Get(positions, "NVDA") = 0
    /\ Get(positions, "AMD") <= 1

\* the end of a firing bar, after an earlier firing bar, with 1 AMD share
C16_Witness ==
    /\ Fired
    /\ Get(positions, "AMD") = 1
    /\ Len(BarEntries) = 4
    /\ Len(history) >= 7

\* the rule holds of the values the step reads
FiresNext == Rule(cur'.rsi, cur'.sma50, cur'.sma200, cur'.zscore)

\* C17: once 1 AMD share is held, no later bar changes capital or positions;
\* capital changes only at the first firing bar with capital >= 2 * close, by
\* minus that close, so the final capital is the initial capital or the
\* initial capital minus the close of one bar.
C17_OneBarChangesCapital ==
    /\ [][/\ Get(positions, "AMD") = 1 => (capital' = capital /\ positions' = positions)
          /\ capital' # capital =>
               /\ capital = startCapital
               /\ cur' # cur
               /\ FiresNext
               /\ capital >= 2 * cur'.close
               /\ capital' = capital - cur'.close
               /\ Get(positions', "AMD") = 1
          /\ (cur' # cur /\ Get(positions, "AMD") = 0 /\ FiresNext
                 /\ capital >= 2 * cur'.close)
               => capital' = capital - cur'.close]_vars
    /\ [](pc = "done" =>
            \/ capital = startCapital
            \/ /\ Get(positions, "AMD") = 1
               /\ \E c \in Closes : capital = startCapital - c)

\* a finished run whose first firing bar cost one close and whose later
\* firing bar left capital as it was
C17_Witness ==
    /\ pc = "done"
    /\ capital # startCapital
    /\ Get(positions, "AMD") = 1
    /\ Len(history) >= 7

----------------------------------------------------------------------------
(* The Portfolio against its ledger *)

\* the cash a ledger entry stands for, in tenths of a cent: its price, as
\* written in the entry, times its quantity, negative for a buy
EntryCash(e) ==
    IF e.action = "BOUGHT" THEN 0 - e.price * 10 * e.quantity
                           ELSE e.price * 10 * e.quantity

\* the sum of the entries' cash
RECURSIVE LedgerCash(_)
LedgerCash(h) ==
    IF h = <<>> THEN 0 ELSE EntryCash(Head(h)) + LedgerCash(Tail(h))

\* the shares of symbol s bought minus those sold, by the ledger
RECURSIVE LedgerShares(_, _)
LedgerShares(h, s) ==
    IF h = <<>> THEN 0
    ELSE (IF Head(h).symbol # s THEN 0
          ELSE IF Head(h).action = "BOUGHT" THEN Head(h).quantity
          ELSE 0 - Head(h).quantity)
         + LedgerShares(Tail(h), s)

\* every symbol's position is what the ledger says was bought minus sold
PositionsFromLedger ==
    \A s \in SymbolSet : Get(positions, s) = LedgerShares(history, s)

\* C18 as claimed: capital is the starting capital minus the ledger's buys
\* plus its sells, and each position is the ledger's bought minus sold.
C18_StateFromLedger ==
    /\ capital = startCapital + LedgerCash(history)
    /\ PositionsFromLedger

\* every accepted call had a price that is a whole number of cents
WholeCentPrices == \A n \in 1..Len(accepted) : accepted[n].price % 10 = 0

\* C18: each position is the ledger's bought minus sold; capital is the
\* starting capital minus the ledger's buys plus its sells when every traded
\* price is a whole number of cents (the ledger holds prices rounded to cents).
C18_StateFromLedgerWholeCents ==
    /\ PositionsFromLedger
    /\ WholeCentPrices => capital = startCapital + LedgerCash(history)

\* a ledger with a buy and a sell at whole-cent prices above 0
C18_Witness ==
    /\ WholeCentPrices
    /\ \E n \in 1..Len(history) : history[n].action = "BOUGHT" /\ history[n].price > 0
    /\ \E n \in 1..Len(history) : history[n].action = "SOLD" /\ history[n].price > 0
    /\ DOMAIN positions # {}

====
